---- MODULE Spec2Model ----
(***************************************************************************)
(* Fuseboard: the graph-to-prompt compiler and its API routes.             *)
(*                                                                         *)
(* A JavaScript string is modelled as a sequence of tokens (single         *)
(* characters, or a fixed literal of the source kept as one token).  An    *)
(* absent (undefined) string field and the empty string are both the empty *)
(* sequence: the code only ever tests such fields for truthiness.          *)
(***************************************************************************)
EXTENDS Integers, Sequences, FiniteSets, TLC

VARIABLES
  env,            \* process.env of the server: the configured provider keys
  req, out,       \* a request of some API client at a route, and its answer
  nodes, edges,   \* the canvas (React Flow state of GraphInner)
  promptPreview, isRefining, isGenerating, lastStatus,   \* useState of GraphInner
  genHint, generatedOpen,                                \* the useUI store
  alertMsg,       \* the text of the latest alert()
  refineCall,     \* the Refine operation: its closure, request and answer
  genCall,        \* the Generate operation: its closure, request and answer
  generated,      \* the generated items handleGenerate has added to the active project
  ops,            \* the number of operations started and of node ids made
  selectedId,     \* useState of GraphInner: the id of the selected node
  lastEdit,       \* the latest deletion the user asked for
  projects,       \* the useProjects store: its projects
  activeId,       \* the useProjects store: the id of the active project
  uploads,        \* the ids of the image nodes whose upload has not ended yet
  synced,         \* syncedProjectIdRef of GraphInner
  saveTimer,      \* saveTimeoutRef of GraphInner: the save that is scheduled
  rendered,       \* what the latest render of GraphInner saw
  graph_nodes,    \* the rows of the table graph_nodes
  graph_edges,    \* the rows of the table graph_edges
  saves           \* the setGraph calls under way, each at its next statement

routeVars == <<req, out>>

editorVars == <<selectedId, lastEdit>>

storeVars == <<projects, activeId>>

dbVars == <<graph_nodes, graph_edges, saves>>

syncVars == <<synced, saveTimer, rendered, dbVars>>

clientVars ==
  <<nodes, edges, promptPreview, isRefining, isGenerating, lastStatus, genHint,
    generatedOpen, alertMsg, refineCall, genCall, generated, ops, editorVars,
    storeVars, uploads, syncVars>>

vars == <<env, routeVars, clientVars>>

----------------------------------------------------------------------------
(* Bounds of the model *)

MaxNodes == 2
MaxImages == 1
MaxOps == 2

----------------------------------------------------------------------------
(* String helpers: what the JavaScript built-ins do on token sequences *)

Min(a, b) == IF a < b THEN a ELSE b

Truthy(s) == Len(s) > 0

StartsWith(s, p) == Len(s) >= Len(p) /\ SubSeq(s, 1, Len(p)) = p

Contains(s, sub) ==
  \E i \in 1..(Len(s) - Len(sub) + 1) : SubSeq(s, i, i + Len(sub) - 1) = sub

IsSpace(c) == c \in {" ", "\n", "\t"}

RECURSIVE TrimStart(_)
TrimStart(s) ==
  IF Len(s) > 0 /\ IsSpace(Head(s)) THEN TrimStart(Tail(s)) ELSE s

RECURSIVE TrimEnd(_)
TrimEnd(s) ==
  IF Len(s) > 0 /\ IsSpace(s[Len(s)]) THEN TrimEnd(SubSeq(s, 1, Len(s) - 1)) ELSE s

Trim(s) == TrimEnd(TrimStart(s))

RECURSIVE Join(_, _)
Join(list, sep) ==
  IF Len(list) = 0 THEN <<>>
  ELSE IF Len(list) = 1 THEN list[1]
  ELSE list[1] \o sep \o Join(Tail(list), sep)

RECURSIVE Flatten(_)
Flatten(list) == IF Len(list) = 0 THEN <<>> ELSE Head(list) \o Flatten(Tail(list))

MapSeq(s, F(_)) == [i \in 1..Len(s) |-> F(s[i])]

Slice_Latest(s, n) == SubSeq(s, Len(s) - Min(n, Len(s)) + 1, Len(s))

\* s.slice(0, n)
Slice(s, n) == SubSeq(s, 1, Min(n, Len(s)))

EncodeChar(c) ==
  IF c = " " THEN "%20"
  ELSE IF c = "," THEN "%2C"
  ELSE IF c = "\"" THEN "%22"
  ELSE IF c = ":" THEN "%3A"
  ELSE c

encodeURIComponent(s) == [i \in 1..Len(s) |-> EncodeChar(s[i])]

----------------------------------------------------------------------------
(* Literals of the source *)

BlobScheme == <<"blob:">>
LitGenerate == <<"Generate an image">>
LitCohesive == <<"Create a cohesive image combining all references">>
LitImage == <<"image">>
LitImageReference == <<"image reference">>
LitReferenceImage == <<"reference image">>
LitCanvas == <<"Generate based on the canvas content">>
LitCanvasBased == <<"Canvas-based generation">>
MsgAddNodes == <<"Add some nodes to the canvas first!">>
Seeds == {0, 999999}

BlobUrl == <<"blob:", "x">>
Url1 == <<"https:", "u1">>
Url2 == <<"https:", "u2">>

PerRoleCap == 2

----------------------------------------------------------------------------
(* Requests and replies: the bounded inputs *)

Prompts == {<<>>, <<"a">>}

TextData(t) ==
  [type |-> "textNode", text |-> t, alt |-> <<>>, note |-> <<>>, src |-> <<>>, role |-> ""]

ImageData(src, alt, note, role) ==
  [type |-> "imageNode", text |-> <<>>, alt |-> alt, note |-> note, src |-> src, role |-> role]

NodeDatas ==
  { TextData(<<>>), TextData(<<"t">>),
    ImageData(BlobUrl, <<"c">>, <<>>, "subject"),
    ImageData(Url1, <<"c">>, <<"n">>, "subject"),
    ImageData(Url1, <<"d">>, <<>>, "mood"),
    ImageData(Url2, <<>>, <<>>, "") }

ImageRefs ==
  { [url |-> BlobUrl, alt |-> <<"c">>, note |-> <<>>, role |-> "subject"],
    [url |-> Url1, alt |-> <<"c">>, note |-> <<>>, role |-> "subject"],
    [url |-> Url2, alt |-> <<"e">>, note |-> <<>>, role |-> "scene"],
    [url |-> Url2, alt |-> <<"f">>, note |-> <<>>, role |-> "style"],
    [url |-> Url1, alt |-> <<"g">>, note |-> <<>>, role |-> "reference"] }

SeqsUpTo(S, n) == UNION { [1..k -> S] : k \in 0..n }

NodeLists == SeqsUpTo(NodeDatas, MaxNodes)

ImageLists == SeqsUpTo(ImageRefs, MaxImages)

EdgeLists ==
  { <<>>,
    << [source |-> "n1", target |-> "n2", label |-> <<"r">>],
       [source |-> "n2", target |-> "n9", label |-> <<>>] >> }

GenerateBodies ==
  [prompt : Prompts, images : ImageLists, nodes : NodeLists, edges : EdgeLists]

\* What the reasoning provider does with one request.  "throw": the fetch
\* rejects (network error, timeout) or the body is no JSON, so that
\* response.json() rejects; "error": the status is not 2xx; "ok": a 2xx reply
\* whose first text candidate is `text`, the empty `text` standing for a reply
\* without candidates, without parts or with an empty text.  The last reply
\* wraps its text in quotes, as language models often do.
GeminiReplies ==
  { [kind |-> "throw", text |-> <<>>],
    [kind |-> "error", text |-> <<>>],
    [kind |-> "ok", text |-> <<>>],
    [kind |-> "ok", text |-> <<" ">>],
    [kind |-> "ok", text |-> <<" ", "\"", "w", "\"", "\n">>] }

\* The image URLs whose fetch fails (rejects or answers with a non-OK status)
DownSets == { {}, {Url2} }

Envs == [GEMINI_API_KEY : {<<>>, <<"k1">>}, IDEOGRAM_API_KEY : {<<>>, <<"k2">>}]

----------------------------------------------------------------------------
(* src/app/api/generate/route.ts *)

urlToBase64(url, down) ==
  IF StartsWith(url, BlobScheme) THEN [ok |-> FALSE, fetched |-> <<>>]
  ELSE IF url \in down THEN [ok |-> FALSE, fetched |-> <<url>>]
  ELSE [ok |-> TRUE, fetched |-> <<url>>]

IsSubject(i) == i.role = "subject"
IsScene(i) == i.role = "scene"
IsStyle(i) == i.role = "style"
IsReference(i) == i.role = "" \/ i.role = "reference"

TextPart(section, text) ==
  [kind |-> "text", section |-> section, text |-> text, data |-> <<>>]

InlinePart(section, url) ==
  [kind |-> "inlineData", section |-> section, text |-> <<>>, data |-> url]

ImageLabel(prefix, img) ==
  <<prefix, "\"">> \o img.alt \o <<"\"">>
    \o (IF Truthy(img.note) THEN <<" - ">> \o img.note ELSE <<>>)

ImageParts_LabelAlways(img, section, prefix, down) ==
  IF urlToBase64(img.url, down).ok
  THEN << InlinePart(section, img.url), TextPart(section, ImageLabel(prefix, img)) >>
  ELSE << TextPart(section, ImageLabel(prefix, img)) >>

ImageParts(img, section, prefix, down) ==
  IF urlToBase64(img.url, down).ok
  THEN << InlinePart(section, img.url), TextPart(section, ImageLabel(prefix, img)) >>
  ELSE <<>>

RoleSection(bucket, section, header, prefix, down) ==
  IF Len(bucket) > 0
  THEN <<TextPart(section, <<header>>)>>
         \o Flatten([k \in 1..Len(Slice(bucket, PerRoleCap)) |->
                       ImageParts(Slice(bucket, PerRoleCap)[k], section, prefix, down)])
  ELSE <<>>

RoleFetches(bucket, down) ==
  Flatten([k \in 1..Len(Slice(bucket, PerRoleCap)) |->
             urlToBase64(Slice(bucket, PerRoleCap)[k].url, down).fetched])

Bullets(list) == Join([k \in 1..Len(list) |-> <<"- ">> \o list[k]], <<"\n">>)

analysisPrompt(hasSubject, hasScene, hasStyle, textDescriptors, relationships, userPrompt) ==
  <<"TASK: Analyze the provided reference images">>
    \o (IF hasSubject THEN <<"SUBJECT IMAGES:">> ELSE <<>>)
    \o (IF hasScene THEN <<"SCENE IMAGES:">> ELSE <<>>)
    \o (IF hasStyle THEN <<"STYLE IMAGES:">> ELSE <<>>)
    \o (IF Len(textDescriptors) > 0
        THEN <<"TEXT DESCRIPTORS:\n">> \o Bullets(textDescriptors) ELSE <<>>)
    \o (IF Len(relationships) > 0
        THEN <<"RELATIONSHIPS:\n">> \o Bullets(relationships) ELSE <<>>)
    \o <<"USER'S REQUEST: ">> \o userPrompt
    \o <<"CREATE A SINGLE PROMPT that:">>
    \o << IF hasSubject THEN "Places the SUBJECT from the subject reference"
          ELSE "Creates an appropriate subject",
          IF hasScene THEN "In the SCENE/ENVIRONMENT from the scene reference"
          ELSE "in a suitable environment",
          IF hasStyle THEN "Rendered in the STYLE of the style reference"
          ELSE "with professional quality",
          "OUTPUT ONLY THE PROMPT TEXT." >>

analyzeWithGeminiWhisk(images, textDescriptors, userPrompt, relationships, gem, down) ==
  LET subjectImages == SelectSeq(images, IsSubject)
      sceneImages == SelectSeq(images, IsScene)
      styleImages == SelectSeq(images, IsStyle)
      referenceImages == SelectSeq(images, IsReference)
      parts ==
        RoleSection(subjectImages, "subject",
                    "=== SUBJECT REFERENCES ===", "Subject: ", down)
        \o RoleSection(sceneImages, "scene",
                    "=== SCENE/ENVIRONMENT REFERENCES ===", "Scene: ", down)
        \o RoleSection(styleImages, "style",
                    "=== STYLE/AESTHETIC REFERENCES ===", "Style reference: ", down)
        \o RoleSection(referenceImages, "reference",
                    "=== GENERAL REFERENCES ===", "Reference: ", down)
        \o << TextPart("analysis",
                analysisPrompt(Len(subjectImages) > 0, Len(sceneImages) > 0,
                               Len(styleImages) > 0, textDescriptors,
                               relationships, userPrompt)) >>
      fetched ==
        RoleFetches(subjectImages, down) \o RoleFetches(sceneImages, down)
        \o RoleFetches(styleImages, down) \o RoleFetches(referenceImages, down)
      result ==
        IF gem.kind = "throw" THEN userPrompt
        ELSE IF gem.kind = "error" THEN userPrompt
        ELSE IF gem.kind = "ok" /\ Truthy(gem.text) THEN Trim(gem.text)
        ELSE userPrompt
  IN [ result |-> result, parts |-> parts, fetched |-> fetched,
       buckets |-> [subject |-> subjectImages, scene |-> sceneImages,
                    style |-> styleImages, reference |-> referenceImages] ]

NoBuckets == [subject |-> <<>>, scene |-> <<>>, style |-> <<>>, reference |-> <<>>]

\* The JSON answer of a route, with what the handler did on the way.
\* `upstream` is how the provider call of the handler ended ("none": no call):
\* "throw", "error", and for a 2xx reply "text" or "images" when it carries a
\* text or an image and "empty" when it carries none.
Answer(status, error, images, provider) ==
  [ done |-> TRUE, status |-> status, error |-> error, images |-> images,
    provider |-> provider, refined |-> <<>>, finalPrompt |-> <<>>,
    upstream |-> "none",
    analyzed |-> FALSE, allImages |-> <<>>, buckets |-> NoBuckets,
    parts |-> <<>>, fetched |-> <<>> ]

PollinationsUrl_SeedInPrompt(prompt, seed) ==
  <<"https://image.pollinations.ai/prompt/">>
    \o encodeURIComponent(prompt \o <<ToString(seed)>>)
    \o <<"?width=1024&height=1024&seed=", ToString(seed), "&model=flux&nologo=true">>

PollinationsUrl(prompt, seed) ==
  <<"https://image.pollinations.ai/prompt/">> \o encodeURIComponent(prompt)
    \o <<"?width=1024&height=1024&seed=", ToString(seed), "&model=flux&nologo=true">>

TextUpstream(reply) ==
  IF reply.kind # "ok" THEN reply.kind
  ELSE IF Truthy(reply.text) THEN "text" ELSE "empty"

ImageUpstream(reply, usable) ==
  IF reply.kind \in {"throw", "error"} THEN reply.kind
  ELSE IF Len(usable) = 0 THEN "empty" ELSE "images"

IsPersistedImageNode(n) ==
  n.type = "imageNode" /\ Truthy(n.src) /\ ~StartsWith(n.src, BlobScheme)

NotBlob_KeepAll(i) == TRUE

NotBlob(i) == ~StartsWith(i.url, BlobScheme)

NodeImageRef(n) ==
  [url |-> n.src, alt |-> IF Truthy(n.alt) THEN n.alt ELSE LitImage,
   note |-> n.note, role |-> n.role]

IsTextDescriptor(n) == n.type = "textNode" /\ Truthy(n.text)

HasLabel(e) == Truthy(e.label)

MissingContent_Never(body) == FALSE

MissingContent(body) == ~Truthy(body.prompt) /\ Len(body.nodes) = 0

GeneratePOST(body, apiKey, gem, down, seed) ==
  IF MissingContent(body)
  THEN Answer(400, "Missing prompt or canvas content", <<>>, "")
  ELSE
    LET persisted == SelectSeq(body.nodes, IsPersistedImageNode)
        imageRefs == [k \in 1..Len(persisted) |-> NodeImageRef(persisted[k])]
        allImages == imageRefs \o SelectSeq(body.images, NotBlob)
        textNodes == SelectSeq(body.nodes, IsTextDescriptor)
        textDescriptors == [k \in 1..Len(textNodes) |-> textNodes[k].text]
        labelled == SelectSeq(body.edges, HasLabel)
        relationships == [k \in 1..Len(labelled) |-> labelled[k].label]
        initialPrompt ==
          IF Truthy(body.prompt) THEN body.prompt
          ELSE IF Truthy(Join(textDescriptors, <<",", " ">>))
               THEN Join(textDescriptors, <<",", " ">>)
               ELSE LitGenerate
        analyze == Truthy(apiKey) /\ (Len(allImages) > 0 \/ Len(textDescriptors) > 0)
        analysis ==
          analyzeWithGeminiWhisk(allImages, textDescriptors,
            IF Truthy(body.prompt) THEN body.prompt ELSE LitCohesive,
            relationships, gem, down)
        finalPrompt == IF analyze THEN analysis.result ELSE initialPrompt
        imageUrl == PollinationsUrl(finalPrompt, seed)
    IN [ Answer(200, "", <<[url |-> imageUrl, prompt |-> finalPrompt]>>,
                IF Truthy(apiKey) THEN "gemini-whisk" ELSE "pollinations")
         EXCEPT !.finalPrompt = finalPrompt,
                !.analyzed = analyze,
                !.upstream = IF analyze THEN TextUpstream(gem) ELSE "none",
                !.allImages = allImages,
                !.buckets = IF analyze THEN analysis.buckets ELSE NoBuckets,
                !.parts = IF analyze THEN analysis.parts ELSE <<>>,
                !.fetched = IF analyze THEN analysis.fetched ELSE <<>> ]

----------------------------------------------------------------------------
(* The Gemini image route (generate with reference images) *)

Providers == {"undefined", "gemini", "pollinations", "ideogram", "dalle"}

GeminiBodies == [prompt : Prompts, images : ImageLists, provider : Providers]

\* What the image provider does with one request.  "throw": the fetch rejects
\* or the body is no JSON (`message` is the message of the exception);
\* "error": the status is not 2xx (`message` is data.error.message, if any);
\* "ok": a 2xx reply whose first candidate has the `parts`, each with inline
\* image data or without (no parts: also a reply without candidates).
ImageReplies ==
  { [kind |-> "throw", message |-> "fetch failed", parts |-> <<>>],
    [kind |-> "throw", message |-> "Unexpected token", parts |-> <<>>],
    [kind |-> "error", message |-> "", parts |-> <<>>],
    [kind |-> "error", message |-> "quota exceeded", parts |-> <<>>],
    [kind |-> "ok", message |-> "", parts |-> <<>>],
    [kind |-> "ok", message |-> "", parts |-> <<[data |-> <<>>, mimeType |-> <<>>]>>],
    [kind |-> "ok", message |-> "",
     parts |-> <<[data |-> <<"b64">>, mimeType |-> <<>>],
                 [data |-> <<>>, mimeType |-> <<>>]>>] }

\* urlToBase64 of this route: no check of the URL's scheme
urlToBase64Gemini(url, down) ==
  IF StartsWith(url, BlobScheme) \/ url \in down
  THEN [ok |-> FALSE, fetched |-> <<url>>]
  ELSE [ok |-> TRUE, fetched |-> <<url>>]

generateWithPollinations(prompt, seed) ==
  Answer(200, "", <<[url |-> PollinationsUrl(prompt, seed), prompt |-> prompt]>>,
         "pollinations")

HasInlineData(part) == Truthy(part.data)

DataUrl(part) ==
  <<"data:">> \o (IF Truthy(part.mimeType) THEN part.mimeType ELSE <<"image/png">>)
    \o <<";base64,">> \o part.data

GeminiPOST(body, apiKey, reply, down, seed) ==
  LET provider == IF body.provider = "undefined" THEN "gemini" ELSE body.provider
  IN
  IF ~Truthy(body.prompt) THEN Answer(400, "Missing prompt", <<>>, "")
  ELSE IF provider = "gemini" /\ Truthy(apiKey)
  THEN
    LET fetched ==
          Flatten([k \in 1..Len(body.images) |->
                     urlToBase64Gemini(body.images[k].url, down).fetched])
        usable == SelectSeq(reply.parts, HasInlineData)
        generatedImages ==
          [k \in 1..Len(usable) |-> [url |-> DataUrl(usable[k]), prompt |-> body.prompt]]
    IN
    IF reply.kind = "throw"
    THEN [Answer(500, reply.message, <<>>, "")
            EXCEPT !.fetched = fetched, !.upstream = reply.kind]
    ELSE IF reply.kind = "error"
    THEN [Answer(500, IF reply.message # "" THEN reply.message ELSE "Gemini API error",
                 <<>>, "")
            EXCEPT !.fetched = fetched, !.upstream = reply.kind]
    ELSE IF Len(generatedImages) = 0
    THEN [generateWithPollinations(body.prompt, seed)
            EXCEPT !.fetched = fetched, !.upstream = "empty"]
    ELSE [Answer(200, "", generatedImages, "gemini")
            EXCEPT !.fetched = fetched, !.upstream = "images"]
  ELSE generateWithPollinations(body.prompt, seed)

----------------------------------------------------------------------------
(* The Ideogram image route *)

IdeogramBodies == [prompt : Prompts, provider : Providers]

\* The Ideogram reply, with the kinds of ImageReplies: `hasData` tells whether
\* the JSON body has a data list, `urls` are the URLs of that list.
IdeogramReplies ==
  { [kind |-> "throw", message |-> "fetch failed", hasData |-> FALSE, urls |-> <<>>],
    [kind |-> "throw", message |-> "Unexpected token", hasData |-> FALSE, urls |-> <<>>],
    [kind |-> "error", message |-> "", hasData |-> FALSE, urls |-> <<>>],
    [kind |-> "error", message |-> "rate limited", hasData |-> FALSE, urls |-> <<>>],
    [kind |-> "ok", message |-> "", hasData |-> FALSE, urls |-> <<>>],
    [kind |-> "ok", message |-> "", hasData |-> TRUE, urls |-> <<>>],
    [kind |-> "ok", message |-> "", hasData |-> TRUE, urls |-> <<Url1>>] }

UsesPollinations_NoKeyCheck(provider, apiKey) == provider = "pollinations"

UsesPollinations(provider, apiKey) == provider = "pollinations" \/ ~Truthy(apiKey)

IdeogramPOST(body, apiKey, reply, seed) ==
  LET provider == IF body.provider = "undefined" THEN "pollinations" ELSE body.provider
  IN
  IF ~Truthy(body.prompt) THEN Answer(400, "Missing prompt", <<>>, "")
  ELSE IF UsesPollinations(provider, apiKey)
  THEN generateWithPollinations(body.prompt, seed)
  ELSE IF provider = "ideogram" /\ Truthy(apiKey)
  THEN
    LET images ==
          IF reply.hasData
          THEN [k \in 1..Len(reply.urls) |->
                  [url |-> reply.urls[k], prompt |-> body.prompt]]
          ELSE <<>>
    IN
    IF reply.kind = "throw"
    THEN [Answer(500, reply.message, <<>>, "") EXCEPT !.upstream = reply.kind]
    ELSE IF reply.kind = "error"
    THEN [Answer(500, IF reply.message # "" THEN reply.message ELSE "Ideogram error",
                 <<>>, "") EXCEPT !.upstream = reply.kind]
    ELSE [Answer(200, "", images, "ideogram")
            EXCEPT !.upstream = ImageUpstream(reply, images)]
  ELSE Answer(400, "Invalid provider configuration", <<>>, "")

----------------------------------------------------------------------------
(* src/app/api/refine/route.ts *)

RefineSuffix ==
  <<",", " ", "cinematic lighting, 8k resolution, highly detailed, professional photography, commercial aesthetic">>

\* `hasNodes`: the body has a nodes field (an array is truthy, also when empty)
RefineBodies == [prompt : Prompts \cup {<<"t">>, <<"t", ",", " ", "c">>}, hasNodes : BOOLEAN]

\* The text provider: the fetch rejects, the status is not OK, or the body is
\* `text`.  The last reply opens with a preamble phrase.
TextReplies ==
  { [kind |-> "throw", text |-> <<>>],
    [kind |-> "error", text |-> <<>>],
    [kind |-> "ok", text |-> <<>>],
    [kind |-> "ok", text |-> <<" ", "\n">>],
    [kind |-> "ok", text |-> <<" ", "Here is", " ", "s", "\n">>] }

RefineFallback_SuffixOnly(prompt) == RefineSuffix

RefineFallback(prompt) == prompt \o RefineSuffix

RefinePOST(body, reply) ==
  IF ~Truthy(body.prompt) /\ ~body.hasNodes
  THEN Answer(400, "Missing prompt or nodes", <<>>, "")
  ELSE IF reply.kind = "throw"
  THEN [Answer(500, "Failed to refine prompt", <<>>, "") EXCEPT !.upstream = "throw"]
  ELSE IF reply.kind = "error"
  THEN [Answer(200, "", <<>>, "")
          EXCEPT !.refined = RefineFallback(body.prompt), !.upstream = "error"]
  ELSE [Answer(200, "", <<>>, "")
          EXCEPT !.refined = Trim(reply.text), !.upstream = TextUpstream(reply)]

----------------------------------------------------------------------------
(* The routes as called by any client of the API *)

NoEdit == [op |-> "none"]

NoTimer == [pending |-> FALSE]

NotRendered == [mounted |-> FALSE]

\* makeEmptyProject, with the fields of a project the model follows
makeEmptyProject(name, id) ==
  [id |-> id, name |-> name, nodes |-> <<>>, edges |-> <<>>, generated |-> <<>>]

NoReq == [route |-> "none"]
NoOut == [done |-> FALSE]

NoReply == [kind |-> "none", text |-> <<>>]

Urls(list) == {list[k] : k \in 1..Len(list)}

\* The answer of a handler together with what its environment did while it
\* ran: the reply of the provider it called (if it called one) and the image
\* URLs it fetched in vain.
Observed(answer, reply, down) ==
  answer @@ [reply |-> IF answer.upstream = "none" THEN NoReply ELSE reply,
             down |-> down \cap Urls(answer.fetched)]

IdleCall == [phase |-> "idle"]

\* GraphInner as mounted, showing the canvas `canvas`
CanvasInit(canvas, typed) ==
  /\ nodes = canvas.nodes
  /\ edges = canvas.edges
  /\ promptPreview = typed
  /\ isRefining = FALSE
  /\ isGenerating = FALSE
  /\ lastStatus = "null"
  /\ genHint = FALSE
  /\ generatedOpen = FALSE
  /\ alertMsg = ""
  /\ refineCall = IdleCall
  /\ genCall = IdleCall
  /\ generated = <<>>
  /\ ops = 0
  /\ selectedId = "null"
  /\ lastEdit = NoEdit
  /\ uploads = {}
  /\ synced = "null"
  /\ saveTimer = NoTimer
  /\ rendered = NotRendered
  /\ graph_nodes = {}
  /\ graph_edges = {}
  /\ saves = <<>>

\* GraphInner as mounted over the store as created
ClientInit(canvas, typed) ==
  /\ CanvasInit(canvas, typed)
  /\ projects = <<makeEmptyProject("Demo Project", "p0")>>
  /\ activeId = "null"

InitRoutes ==
  /\ env \in Envs
  /\ req = NoReq
  /\ out = NoOut
  /\ ClientInit([nodes |-> <<>>, edges |-> <<>>], <<>>)

ArriveGenerate ==
  /\ req.route = "none"
  /\ \E body \in GenerateBodies : req' = [route |-> "generate", body |-> body]
  /\ UNCHANGED <<env, out, clientVars>>

HandleGenerate ==
  /\ req.route = "generate" /\ ~out.done
  /\ \E gem \in GeminiReplies, down \in DownSets, seed \in Seeds :
       out' = Observed(GeneratePOST(req.body, env.GEMINI_API_KEY, gem, down, seed),
                       gem, down)
  /\ UNCHANGED <<env, req, clientVars>>

ArriveGemini ==
  /\ req.route = "none"
  /\ \E body \in GeminiBodies : req' = [route |-> "gemini", body |-> body]
  /\ UNCHANGED <<env, out, clientVars>>

HandleGemini ==
  /\ req.route = "gemini" /\ ~out.done
  /\ \E reply \in ImageReplies, down \in DownSets, seed \in Seeds :
       out' = GeminiPOST(req.body, env.GEMINI_API_KEY, reply, down, seed)
  /\ UNCHANGED <<env, req, clientVars>>

ArriveIdeogram ==
  /\ req.route = "none"
  /\ \E body \in IdeogramBodies : req' = [route |-> "ideogram", body |-> body]
  /\ UNCHANGED <<env, out, clientVars>>

HandleIdeogram ==
  /\ req.route = "ideogram" /\ ~out.done
  /\ \E reply \in IdeogramReplies, seed \in Seeds :
       out' = IdeogramPOST(req.body, env.IDEOGRAM_API_KEY, reply, seed)
  /\ UNCHANGED <<env, req, clientVars>>

ArriveRefine ==
  /\ req.route = "none"
  /\ \E body \in RefineBodies : req' = [route |-> "refine", body |-> body]
  /\ UNCHANGED <<env, out, clientVars>>

HandleRefine ==
  /\ req.route = "refine" /\ ~out.done
  /\ \E reply \in TextReplies : out' = Observed(RefinePOST(req.body, reply), reply, {})
  /\ UNCHANGED <<env, req, clientVars>>

Respond ==
  /\ out.done
  /\ req' = NoReq
  /\ out' = NoOut
  /\ UNCHANGED <<env, clientVars>>

NextRoutes ==
  \/ ArriveGenerate
  \/ HandleGenerate
  \/ ArriveGemini
  \/ HandleGemini
  \/ ArriveIdeogram
  \/ HandleIdeogram
  \/ ArriveRefine
  \/ HandleRefine
  \/ Respond

SpecRoutes == InitRoutes /\ [][NextRoutes]_vars

----------------------------------------------------------------------------
(* The useProjects store: its state *)

ProjectIdNames == <<"p0", "p1", "p2", "p3">>

ItemIdNames == <<"g1", "g2", "g3", "g4">>

\* The items handleGenerate passes to addGenerated: one per image of the answer
ItemBatches ==
  { <<[url |-> Url1, prompt |-> <<"a">>]>>,
    <<[url |-> Url1, prompt |-> <<"a">>], [url |-> Url2, prompt |-> <<>>]>> }

ProjectIds == {projects[k].id : k \in 1..Len(projects)}

RECURSIVE AllItems(_)
AllItems(list) ==
  IF Len(list) = 0 THEN <<>> ELSE Head(list).generated \o AllItems(Tail(list))

\* Date.now(): not earlier than the creation of any item of the store
Now ==
  LET all == AllItems(projects)
      stamps == {all[k].createdAt : k \in 1..Len(all)} \cup {Len(all) + 1}
  IN CHOOSE t \in stamps : \A u \in stamps : u <= t

ItemIds(items) == {items[k].id : k \in 1..Len(items)}

\* uuidv4: an id that is not in `taken` (the first free name of `names`)
uuidv4(names, taken) ==
  names[CHOOSE k \in 1..Len(names) :
          /\ names[k] \notin taken
          /\ \A j \in 1..(k - 1) : names[j] \in taken]

\* active(): the project with the active id, or else the first project
activeProjectId ==
  IF activeId \in ProjectIds THEN activeId
  ELSE IF Len(projects) > 0 THEN projects[1].id
  ELSE uuidv4(ProjectIdNames, ProjectIds)

\* items.map(it => ({...it, id: uuidv4(), createdAt: Date.now()}))
RECURSIVE toAdd(_, _, _)
toAdd(items, now, taken) ==
  IF Len(items) = 0 THEN <<>>
  ELSE LET id == uuidv4(ItemIdNames, taken)
       IN <<[id |-> id, url |-> Head(items).url, prompt |-> Head(items).prompt,
             createdAt |-> now]>>
          \o toAdd(Tail(items), now, taken \cup {id})

\* A variant of Appended that puts the new items first
Appended_Front(old, new) == new \o old

\* [...(pr.generated || []), ...toAdd]
Appended(old, new) == old \o new

\* The projects after addGenerated(items): the items, with an id and a time of
\* creation, follow the items of the project active() returns
WithGenerated(items) ==
  [k \in 1..Len(projects) |->
     IF projects[k].id = activeProjectId
     THEN [projects[k] EXCEPT
             !.generated =
                Appended(@, toAdd(items, Now, ItemIds(AllItems(projects))))]
     ELSE projects[k]]

----------------------------------------------------------------------------
(* src/components/graph/index.tsx: the prompt panel of GraphInner *)

IsTextNode(n) == n.type = "textNode"

IsImageNode(n) == n.type = "imageNode"

TextOrEmpty(n) == n.text

AltOrDefault_NoDefault(n) == n.alt

AltOrDefault(n) == IF Truthy(n.alt) THEN n.alt ELSE LitImageReference

RECURSIVE NodeOrderSegments(_)
NodeOrderSegments(list) ==
  IF Len(list) = 0 THEN <<>>
  ELSE (IF IsTextNode(Head(list)) /\ Truthy(Head(list).text)
        THEN <<Head(list).text>>
        ELSE IF IsImageNode(Head(list)) THEN <<AltOrDefault(Head(list))>>
        ELSE <<>>)
       \o NodeOrderSegments(Tail(list))

\* A variant of promptSegments that keeps the nodes' order, texts and labels mixed
promptSegments_NodeOrder(list) == NodeOrderSegments(list)

\* [...texts, ...imgs] of buildSimplePrompt
promptSegments(list) ==
  LET texts == SelectSeq(MapSeq(SelectSeq(list, IsTextNode), TextOrEmpty), Truthy)
      imgs == SelectSeq(MapSeq(SelectSeq(list, IsImageNode), AltOrDefault), Truthy)
  IN texts \o imgs

buildSimplePrompt(list) == Join(promptSegments(list), <<",", " ">>)

HasSource(n) == IsImageNode(n) /\ Truthy(n.src)

CanvasImageRef(n) ==
  [url |-> n.src,
   alt |-> IF Truthy(n.alt) THEN n.alt ELSE LitReferenceImage,
   note |-> n.note,
   role |-> ""]

\* The request body handleGenerate sends for the prompt `prompt`
GenerateBody(prompt) ==
  [prompt |-> IF Truthy(prompt) THEN prompt ELSE LitCanvas,
   images |-> SelectSeq(MapSeq(SelectSeq(nodes, HasSource), CanvasImageRef), NotBlob),
   nodes |-> nodes,
   edges |-> edges]

\* A variant of FlagAfterFinally that leaves the flag set
FlagAfterFinally_StillSet == TRUE

\* The value the finally block of a handler gives to its in-flight flag
FlagAfterFinally == FALSE

RefineDisabled_Never == FALSE

\* The Refine button is disabled
RefineDisabled == isRefining

\* The Generate button is disabled
GenerateDisabled == isGenerating

\* handleRefinePrompt up to its fetch
handleRefinePrompt ==
  /\ ~RefineDisabled
  /\ ops < MaxOps
  /\ ops' = ops + 1
  /\ IF ~Truthy(buildSimplePrompt(nodes))
     THEN /\ promptPreview' = MsgAddNodes
          /\ isRefining' = FlagAfterFinally
          /\ refineCall' =
               [phase |-> "done", crude |-> buildSimplePrompt(nodes),
                upstream |-> "none"]
     ELSE /\ isRefining' = TRUE
          /\ refineCall' =
               [phase |-> "sent", crude |-> buildSimplePrompt(nodes),
                body |-> [prompt |-> buildSimplePrompt(nodes), hasNodes |-> FALSE]]
          /\ UNCHANGED promptPreview
  /\ UNCHANGED <<env, routeVars, nodes, edges, isGenerating, lastStatus, genHint,
                 generatedOpen, alertMsg, genCall, generated,
                 uploads, syncVars, editorVars, storeVars>>

\* The refine route answers the request, or the request does not reach it
ServeRefine ==
  /\ refineCall.phase = "sent"
  /\ \/ \E reply \in TextReplies :
          refineCall' = [refineCall EXCEPT !.phase = "answered"]
                          @@ [answer |-> RefinePOST(refineCall.body, reply)]
     \/ refineCall' = [refineCall EXCEPT !.phase = "failed"]
  /\ UNCHANGED <<env, routeVars, nodes, edges, promptPreview, isRefining, isGenerating,
                 lastStatus, genHint, generatedOpen, alertMsg, genCall,
                 generated, ops,
                 uploads, syncVars, editorVars, storeVars>>

\* handleRefinePrompt after its fetch: the answer, the catch and the finally
handleRefineDone ==
  /\ refineCall.phase \in {"answered", "failed"}
  /\ promptPreview' =
       IF refineCall.phase = "failed" THEN buildSimplePrompt(nodes)
       ELSE IF Truthy(refineCall.answer.refined) THEN refineCall.answer.refined
       ELSE refineCall.crude
  /\ isRefining' = FlagAfterFinally
  /\ refineCall' =
       [phase |-> "done", crude |-> refineCall.crude,
        upstream |-> IF refineCall.phase = "failed" THEN "unreachable"
                     ELSE refineCall.answer.upstream]
  /\ UNCHANGED <<env, routeVars, nodes, edges, isGenerating, lastStatus, genHint,
                 generatedOpen, alertMsg, genCall, generated, ops,
                 uploads, syncVars, editorVars, storeVars>>

GeneratePrompt ==
  IF Truthy(Trim(promptPreview)) THEN Trim(promptPreview) ELSE buildSimplePrompt(nodes)

\* handleGenerate up to its fetch
handleGenerate ==
  /\ ~GenerateDisabled
  /\ ops < MaxOps
  /\ ops' = ops + 1
  /\ IF ~Truthy(GeneratePrompt) /\ Len(nodes) = 0
     THEN /\ alertMsg' = "Please add some nodes or write a prompt first!"
          /\ UNCHANGED <<isGenerating, genHint, lastStatus, genCall>>
     ELSE /\ isGenerating' = TRUE
          /\ genHint' = TRUE
          /\ lastStatus' = "null"
          /\ genCall' = [phase |-> "sent", prompt |-> GeneratePrompt,
                         body |-> GenerateBody(GeneratePrompt),
                         project |-> activeProjectId]
          /\ UNCHANGED alertMsg
  /\ UNCHANGED <<env, routeVars, nodes, edges, promptPreview, isRefining,
                 generatedOpen, refineCall, generated,
                 uploads, syncVars, editorVars, storeVars>>

\* The generate route answers the request, or the request does not reach it
ServeGenerate ==
  /\ genCall.phase = "sent"
  /\ \/ \E gem \in GeminiReplies, down \in DownSets, seed \in Seeds :
          LET answer == GeneratePOST(genCall.body, env.GEMINI_API_KEY, gem, down, seed)
          IN genCall' = [genCall EXCEPT !.phase = "answered"]
                          @@ [answer |-> [status |-> answer.status,
                                          error |-> answer.error,
                                          images |-> answer.images,
                                          upstream |-> answer.upstream]]
     \/ genCall' = [genCall EXCEPT !.phase = "failed"]
  /\ UNCHANGED <<env, routeVars, nodes, edges, promptPreview, isRefining, isGenerating,
                 lastStatus, genHint, generatedOpen, alertMsg, refineCall,
                 generated, ops,
                 uploads, syncVars, editorVars, storeVars>>

GeneratedItem(img, prompt) ==
  [url |-> img.url, prompt |-> IF Truthy(prompt) THEN prompt ELSE LitCanvasBased]

\* handleGenerate after its fetch: addGenerated, the catch and the finally
handleGenerateDone ==
  /\ genCall.phase \in {"answered", "failed"}
  /\ IF genCall.phase = "answered" /\ genCall.answer.error = ""
        /\ Len(genCall.answer.images) > 0
     THEN /\ generated' =
               generated \o [k \in 1..Len(genCall.answer.images) |->
                               GeneratedItem(genCall.answer.images[k], genCall.prompt)]
          /\ projects' =
               WithGenerated([k \in 1..Len(genCall.answer.images) |->
                                GeneratedItem(genCall.answer.images[k], genCall.prompt)])
          /\ lastStatus' = "Generated via Gemini!"
          /\ generatedOpen' = TRUE
          /\ genHint' = FALSE
          /\ UNCHANGED alertMsg
     ELSE /\ lastStatus' = "Failed"
          /\ alertMsg' =
               IF genCall.phase = "failed" THEN "Generation failed: fetch failed"
               ELSE IF genCall.answer.error # "" THEN "Generation failed: server error"
               ELSE "Generation failed: No images returned"
          /\ UNCHANGED <<generated, generatedOpen, genHint, projects>>
  /\ isGenerating' = FlagAfterFinally
  /\ genCall' =
       [phase |-> "done", prompt |-> genCall.prompt, body |-> genCall.body,
        project |-> genCall.project,
        upstream |-> IF genCall.phase = "failed" THEN "unreachable"
                     ELSE genCall.answer.upstream,
        images |-> IF genCall.phase = "failed" THEN <<>> ELSE genCall.answer.images]
  /\ UNCHANGED <<env, routeVars, nodes, edges, promptPreview, isRefining, refineCall, ops,
                 uploads, syncVars, editorVars, activeId>>

CanvasNodes ==
  { TextData(<<>>), TextData(<<"t">>), TextData(<<"u">>),
    ImageData(BlobUrl, <<"c">>, <<>>, "subject"),
    ImageData(Url2, <<>>, <<>>, "") }

CanvasEdges(list) ==
  IF Len(list) >= 2
  THEN <<[source |-> "n1", target |-> "n2", label |-> <<"r">>]>>
  ELSE <<>>

\* The nodes of a canvas differ from each other (each has its own id)
IsInjective(list) == \A i, j \in 1..Len(list) : list[i] = list[j] => i = j

Canvases ==
  { [nodes |-> list, edges |-> CanvasEdges(list)] :
      list \in {l \in SeqsUpTo(CanvasNodes, MaxNodes) : IsInjective(l)} }

Init ==
  /\ env \in {e \in Envs : ~Truthy(e.IDEOGRAM_API_KEY)}
  /\ req = NoReq
  /\ out = NoOut
  /\ \E canvas \in Canvases, typed \in Prompts : ClientInit(canvas, typed)

Next ==
  \/ handleRefinePrompt
  \/ ServeRefine
  \/ handleRefineDone
  \/ handleGenerate
  \/ ServeGenerate
  \/ handleGenerateDone

Spec == Init /\ [][Next]_vars

----------------------------------------------------------------------------
(* src/components/graph/index.tsx: the canvas editor of GraphInner *)

MaxEdges == 1

promptVars ==
  <<promptPreview, isRefining, isGenerating, lastStatus, genHint, generatedOpen,
    alertMsg, refineCall, genCall, generated, syncVars>>

panelVars == <<promptVars, ops>>

NodeIdNames == <<"n1", "n2", "n3", "n4", "n5", "n6", "n7">>

NodeIds(list) == {list[k].id : k \in 1..Len(list)}

\* nanoid: the k-th id this operation makes, an id never made before (`ops`
\* counts the ids made so far)
nanoid(k) == NodeIdNames[ops + k]

\* A node of the canvas: its id next to the fields of its data
CanvasNode(id, data, uploading, uploadError) ==
  data @@ [id |-> id, uploading |-> uploading, uploadError |-> uploadError]

\* The file the user picks or drops: its cleaned name and where the upload puts it
PickedFile == [cleanName |-> <<"image">>, publicUrl |-> Url2]

DroppedAssets ==
  { [type |-> "image", url |-> Url2, name |-> <<>>, text |-> <<>>],
    [type |-> "text", url |-> <<>>, name |-> <<>>, text |-> <<"t">>] }

\* A preset holds the nodes of a canvas saved earlier
DroppedPreset == <<TextData(<<"t">>), ImageData(Url2, <<"image">>, <<>>, "")>>

\* preset.nodes.map(n => ({...n, id: nanoid()})) appended to the canvas
WithNewIds(list, datas) ==
  list \o [k \in 1..Len(datas) |-> CanvasNode(nanoid(k), datas[k], FALSE, FALSE)]

\* addEdge of React Flow: a connection the canvas already has is not added again
addEdge(edge, eds) ==
  IF \E k \in 1..Len(eds) : eds[k].source = edge.source /\ eds[k].target = edge.target
  THEN eds
  ELSE Append(eds, edge)

\* A variant of Touches that looks at the source of the edge only
Touches_SourceOnly(e, id) == e.source = id

\* The edge `e` is connected to the node `id`
Touches(e, id) == e.source = id \/ e.target = id

addTextNode ==
  /\ Len(nodes) < MaxNodes
  /\ ops + 1 <= MaxOps
  /\ ops' = ops + 1
  /\ nodes' = Append(nodes, CanvasNode(nanoid(1), TextData(<<"New descriptor">>),
                                       FALSE, FALSE))
  /\ UNCHANGED lastEdit
  /\ UNCHANGED <<env, routeVars, edges, selectedId, uploads, promptVars, storeVars>>

\* createImageNodeFromFile up to its await: the node with the temporary blob URL
createImageNodeFromFile ==
  /\ Len(nodes) < MaxNodes
  /\ ops + 1 <= MaxOps
  /\ ops' = ops + 1
  /\ nodes' = Append(nodes, CanvasNode(nanoid(1),
                                       ImageData(BlobUrl, PickedFile.cleanName, <<>>, ""),
                                       TRUE, FALSE))
  /\ uploads' = uploads \cup {nanoid(1)}
  /\ UNCHANGED lastEdit
  /\ UNCHANGED <<env, routeVars, edges, selectedId, promptVars, storeVars>>

\* A variant of IsUploadedNode for which every image node is the uploaded one
IsUploadedNode_AnyImage(n, id) == IsImageNode(n)

\* n.id === id of the completion of createImageNodeFromFile
IsUploadedNode(n, id) == n.id = id

\* createImageNodeFromFile after its await: the upload of the node `id` has ended
UploadSettled(id, ok) ==
  /\ id \in uploads
  /\ uploads' = uploads \ {id}
  /\ nodes' = [k \in 1..Len(nodes) |->
                 IF IsUploadedNode(nodes[k], id)
                 THEN IF ok
                      THEN [nodes[k] EXCEPT !.src = PickedFile.publicUrl,
                                            !.uploading = FALSE]
                      ELSE [nodes[k] EXCEPT !.uploadError = TRUE, !.uploading = FALSE]
                 ELSE nodes[k]]
  /\ UNCHANGED lastEdit
  /\ UNCHANGED <<env, routeVars, edges, selectedId, panelVars, storeVars>>

UploadDone == \E id \in uploads : UploadSettled(id, TRUE)

UploadFailed == \E id \in uploads : UploadSettled(id, FALSE)

onDropPreset ==
  /\ Len(nodes) + Len(DroppedPreset) <= MaxNodes
  /\ ops + Len(DroppedPreset) <= MaxOps
  /\ ops' = ops + Len(DroppedPreset)
  /\ nodes' = WithNewIds(nodes, DroppedPreset)
  /\ UNCHANGED lastEdit
  /\ UNCHANGED <<env, routeVars, edges, selectedId, uploads, promptVars, storeVars>>

onDropAsset ==
  /\ Len(nodes) < MaxNodes
  /\ ops + 1 <= MaxOps
  /\ ops' = ops + 1
  /\ \E asset \in DroppedAssets :
       nodes' = Append(nodes,
                  CanvasNode(nanoid(1),
                             IF asset.type = "image"
                             THEN ImageData(asset.url,
                                            IF Truthy(asset.name) THEN asset.name
                                            ELSE <<"image">>,
                                            <<>>, "")
                             ELSE TextData(asset.text),
                             FALSE, FALSE))
  /\ UNCHANGED lastEdit
  /\ UNCHANGED <<env, routeVars, edges, selectedId, uploads, promptVars, storeVars>>

\* React Flow reports a connection the user drew between two nodes of the canvas
onConnect ==
  /\ Len(edges) < MaxEdges
  /\ \E source \in NodeIds(nodes), target \in NodeIds(nodes), connectLabel \in {<<"r">>} :
       edges' = addEdge([source |-> source, target |-> target, label |-> connectLabel],
                        edges)
  /\ UNCHANGED lastEdit
  /\ UNCHANGED <<env, routeVars, nodes, selectedId, uploads, panelVars, storeVars>>

onSelectionChange ==
  /\ \E picked \in NodeIds(nodes) \cup {"null"} :
       /\ picked # selectedId
       /\ selectedId' = picked
  /\ UNCHANGED lastEdit
  /\ UNCHANGED <<env, routeVars, nodes, edges, uploads, panelVars, storeVars>>

deleteSelected ==
  /\ selectedId # "null"
  /\ selectedId' = "null"
  /\ edges' = SelectSeq(edges, LAMBDA e : ~Touches(e, selectedId))
  /\ nodes' = SelectSeq(nodes, LAMBDA n : n.id # selectedId)
  /\ lastEdit' = [op |-> "deleteSelected",
                   cutOut |-> \E k \in 1..Len(edges) : edges[k].source = selectedId,
                   cutIn |-> \E k \in 1..Len(edges) : edges[k].target = selectedId,
                   uploading |-> selectedId \in uploads]
  /\ UNCHANGED <<env, routeVars, uploads, panelVars, storeVars>>

handleResetCanvas ==
  /\ \E confirmed \in BOOLEAN : Len(nodes) = 0 \/ confirmed
  /\ nodes' = <<>>
  /\ edges' = <<>>
  /\ lastEdit' = [op |-> "handleResetCanvas"]
  /\ UNCHANGED <<env, routeVars, selectedId, uploads, panelVars, storeVars>>

InitEditor ==
  /\ env \in {e \in Envs : ~Truthy(e.IDEOGRAM_API_KEY) /\ ~Truthy(e.GEMINI_API_KEY)}
  /\ req = NoReq
  /\ out = NoOut
  /\ ClientInit([nodes |-> <<>>, edges |-> <<>>], <<>>)

NextEditor ==
  \/ addTextNode
  \/ createImageNodeFromFile
  \/ UploadDone
  \/ UploadFailed
  \/ onDropPreset
  \/ onDropAsset
  \/ onConnect
  \/ onSelectionChange
  \/ deleteSelected
  \/ handleResetCanvas

SpecEditor == InitEditor /\ [][NextEditor]_vars

----------------------------------------------------------------------------
(* The useProjects store *)

\* The store as the panels use it once the dashboard has mounted: the
\* operations below act on the projects in memory.  A project is followed by
\* its id, its name and its generated items; its graph and its assets, which
\* setGraph and addAssets replace, are left out.

MaxProjects == 2
MaxItems == 2

canvasVars == <<nodes, edges, selectedId, uploads, panelVars>>

addProject ==
  /\ Len(projects) < MaxProjects
  /\ LET id == uuidv4(ProjectIdNames, ProjectIds)
     IN /\ projects' = Append(projects, makeEmptyProject("Untitled", id))
        /\ activeId' = id
  /\ UNCHANGED <<env, routeVars, canvasVars, lastEdit>>

rename(id, name) ==
  /\ projects' = [k \in 1..Len(projects) |->
                    IF projects[k].id = id THEN [projects[k] EXCEPT !.name = name]
                    ELSE projects[k]]
  /\ UNCHANGED <<env, routeVars, canvasVars, lastEdit, activeId>>

remove(id) ==
  /\ LET next == SelectSeq(projects, LAMBDA p : p.id # id)
     IN /\ projects' = next
        /\ activeId' = IF Len(next) > 0 THEN next[1].id ELSE "null"
  /\ UNCHANGED <<env, routeVars, canvasVars, lastEdit>>

setActive(id) ==
  /\ activeId' = id
  /\ UNCHANGED <<env, routeVars, canvasVars, lastEdit, projects>>

addGenerated(items) ==
  /\ Len(AllItems(projects)) + Len(items) <= MaxItems
  /\ projects' = WithGenerated(items)
  /\ UNCHANGED <<env, routeVars, canvasVars, lastEdit, activeId>>

removeGenerated(id) ==
  /\ projects' = [k \in 1..Len(projects) |->
                    IF projects[k].id = activeProjectId
                    THEN [projects[k] EXCEPT
                            !.generated = SelectSeq(@, LAMBDA g : g.id # id)]
                    ELSE projects[k]]
  /\ lastEdit' = [op |-> "removeGenerated"]
  /\ UNCHANGED <<env, routeVars, canvasVars, activeId>>

\* active().generated: the items the Generated modal lists, each with its
\* delete button
ActiveGenerated ==
  IF activeProjectId \in ProjectIds
  THEN projects[CHOOSE k \in 1..Len(projects) : projects[k].id = activeProjectId].generated
  ELSE <<>>

InitStore == InitEditor

NextStore ==
  \/ addProject
  \/ \E id \in ProjectIds : rename(id, "Renamed")
  \/ \E id \in ProjectIds : remove(id)
  \/ \E id \in ProjectIds : setActive(id)
  \/ \E items \in ItemBatches : addGenerated(items)
  \/ \E id \in ItemIds(ActiveGenerated) : removeGenerated(id)

SpecStore == InitStore /\ [][NextStore]_vars

\* init(): the projects of the user as loaded from the database, the first
\* of them active
LoadedProjects ==
  [k \in 1..(MaxProjects + 1) |-> makeEmptyProject("Untitled", ProjectIdNames[k])]

InitTabs ==
  /\ env \in {e \in Envs : ~Truthy(e.IDEOGRAM_API_KEY) /\ ~Truthy(e.GEMINI_API_KEY)}
  /\ req = NoReq
  /\ out = NoOut
  /\ CanvasInit([nodes |-> <<>>, edges |-> <<>>], <<>>)
  /\ projects = LoadedProjects
  /\ activeId = LoadedProjects[1].id

\* ProjectTabs: a click on a tab, the end of an edit of its name, a click on
\* its remove button (shown while there is more than one project); and the
\* Generated modal over the active project
NextTabs ==
  \/ \E id \in ProjectIds : setActive(id)
  \/ \E id \in ProjectIds : rename(id, "Renamed")
  \/ \E id \in ProjectIds : Len(projects) > 1 /\ remove(id)
  \/ \E items \in ItemBatches : addGenerated(items)
  \/ \E id \in ItemIds(ActiveGenerated) : removeGenerated(id)

SpecTabs == InitTabs /\ [][NextTabs]_vars

\* The canvas of one descriptor, and the tabs used while a Generate runs
InitSwitch ==
  /\ env \in {e \in Envs : ~Truthy(e.IDEOGRAM_API_KEY) /\ ~Truthy(e.GEMINI_API_KEY)}
  /\ req = NoReq
  /\ out = NoOut
  /\ ClientInit([nodes |-> <<TextData(<<"t">>)>>, edges |-> <<>>], <<>>)

NextSwitch ==
  \/ handleGenerate
  \/ ServeGenerate
  \/ handleGenerateDone
  \/ addProject
  \/ \E id \in ProjectIds : setActive(id)
  \/ \E id \in ProjectIds : Len(projects) > 1 /\ remove(id)

SpecSwitch == InitSwitch /\ [][NextSwitch]_vars

----------------------------------------------------------------------------
(* src/components/graph/index.tsx: the effects of GraphInner *)

flagVars ==
  <<isRefining, isGenerating, lastStatus, genHint, generatedOpen, alertMsg,
    refineCall, genCall, generated>>

\* active(), the project GraphInner renders
ActiveProject ==
  projects[CHOOSE k \in 1..Len(projects) : projects[k].id = activeProjectId]

\* A render of GraphInner and the effects that run after it: the cleanup of
\* the save effect, the project sync effect when project?.id has changed, and
\* the save effect, which schedules the save of the nodes and edges rendered
Commit ==
  LET idChanged ==
        IF rendered.mounted THEN rendered.project # activeProjectId ELSE TRUE
      graphChanged ==
        IF rendered.mounted
        THEN rendered.nodes # nodes \/ rendered.edges # edges
        ELSE TRUE
      resync == idChanged /\ activeProjectId # synced
      currentProjectId == IF resync THEN activeProjectId ELSE synced
  IN /\ Len(projects) > 0
     /\ (idChanged \/ graphChanged) = TRUE
     /\ rendered' = [mounted |-> TRUE, project |-> activeProjectId,
                     nodes |-> nodes, edges |-> edges]
     /\ IF resync
        THEN /\ nodes' = ActiveProject.nodes
             /\ edges' = ActiveProject.edges
             /\ promptPreview' = <<>>
             /\ selectedId' = "null"
        ELSE UNCHANGED <<nodes, edges, promptPreview, selectedId>>
     /\ synced' = currentProjectId
     /\ saveTimer' =
          IF currentProjectId = "null" \/ currentProjectId # activeProjectId
          THEN NoTimer
          ELSE [pending |-> TRUE, nodes |-> nodes, edges |-> edges,
                projectId |-> currentProjectId]
     /\ UNCHANGED <<env, routeVars, flagVars, ops, lastEdit, uploads, storeVars,
                    dbVars>>

\* The projects after setGraph({nodes, edges, projectId}) of the store
WithGraph(graph) ==
  [k \in 1..Len(projects) |->
     IF projects[k].id = activeProjectId
     THEN [projects[k] EXCEPT !.nodes = graph.nodes, !.edges = graph.edges]
     ELSE projects[k]]

\* The timeout of the save effect fires
TimerFires ==
  /\ saveTimer.pending
  /\ projects' = WithGraph(saveTimer)
  /\ saveTimer' = NoTimer
  /\ UNCHANGED <<env, routeVars, nodes, edges, promptPreview, selectedId, flagVars,
                 ops, lastEdit, uploads, synced, rendered, activeId, dbVars>>

\* The number of files the user picks while the effects are observed
MaxPicks == 1

InitSync == InitEditor

NextSync ==
  \/ Commit
  \/ TimerFires
  \/ rendered.mounted /\ ops < MaxPicks /\ createImageNodeFromFile
  \/ UploadDone
  \/ UploadFailed
  \/ addProject
  \/ \E id \in ProjectIds : setActive(id)

SpecSync == InitSync /\ [][NextSync]_vars

-----------------------------------------------------------------------------
(* setGraph of the store backed by the database: its statements *)

\* The number of setGraph calls that are under way at the same time
MaxSaves == 2

\* dbNodes of setGraph: one row of graph_nodes for every node
NodeRows(p, list) ==
  {[project_id |-> p, node_id |-> list[k].id, node |-> list[k]] : k \in 1..Len(list)}

\* e.id of an edge made by addEdge of React Flow, which names the edge after
\* its source and its target
EdgeId(e) == <<e.source, e.target>>

\* dbEdges of setGraph: one row of graph_edges for every edge
EdgeRows(p, list) ==
  {[project_id |-> p, edge_id |-> EdgeId(list[k]), edge |-> list[k]] : k \in 1..Len(list)}

\* UNIQUE(project_id, node_id): the rows can be inserted into the table
FitsNodes(rows, table) ==
  \A r \in rows : \A t \in table :
    ~(t.project_id = r.project_id /\ t.node_id = r.node_id)

\* UNIQUE(project_id, edge_id): the rows can be inserted into the table
FitsEdges(rows, table) ==
  \A r \in rows : \A t \in table :
    ~(t.project_id = r.project_id /\ t.edge_id = r.edge_id)

\* insert(rows): one statement, which adds every row or, on a conflict, none
InsertNodes(rows, table) == IF FitsNodes(rows, table) THEN table \cup rows ELSE table

InsertEdges(rows, table) == IF FitsEdges(rows, table) THEN table \cup rows ELSE table

\* delete().eq("project_id", p)
DeleteOf(p, table) == {t \in table : t.project_id # p}

\* setGraph({nodes, edges}) up to its first await: the local state is updated
\* and the call goes on to its database statements (a user is signed in)
setGraph ==
  /\ Len(projects) > 0
  /\ Len(saves) < MaxSaves
  /\ projects' = WithGraph([nodes |-> nodes, edges |-> edges])
  /\ saves' = Append(saves, [pc |-> "deleteNodes", project |-> activeProjectId,
                             nodes |-> nodes, edges |-> edges])
  /\ UNCHANGED <<env, routeVars, nodes, edges, promptPreview, selectedId, flagVars,
                 ops, lastEdit, uploads, synced, saveTimer, rendered, activeId,
                 graph_nodes, graph_edges>>

\* The saves without the i-th one, which has returned
Returned(i) == [k \in 1..(Len(saves) - 1) |-> IF k < i THEN saves[k] ELSE saves[k + 1]]

\* The next statement of the i-th setGraph call under way is executed
SaveStep(i) ==
  LET call == saves[i]
      at(pc) == [saves EXCEPT ![i].pc = pc]
  IN /\ CASE call.pc = "deleteNodes" ->
              /\ graph_nodes' = DeleteOf(call.project, graph_nodes)
              /\ saves' = at("deleteEdges")
              /\ UNCHANGED graph_edges
          [] call.pc = "deleteEdges" ->
              /\ graph_edges' = DeleteOf(call.project, graph_edges)
              /\ saves' = at("insertNodes")
              /\ UNCHANGED graph_nodes
          [] call.pc = "insertNodes" ->
              /\ graph_nodes' = InsertNodes(NodeRows(call.project, call.nodes), graph_nodes)
              /\ saves' = at("insertEdges")
              /\ UNCHANGED graph_edges
          [] call.pc = "insertEdges" ->
              /\ graph_edges' = InsertEdges(EdgeRows(call.project, call.edges), graph_edges)
              /\ saves' = Returned(i)
              /\ UNCHANGED graph_nodes
     /\ UNCHANGED <<env, routeVars, nodes, edges, promptPreview, selectedId, flagVars,
                    ops, lastEdit, uploads, synced, saveTimer, rendered, storeVars>>

InitDb == InitEditor

NextDb ==
  \/ addTextNode
  \/ onConnect
  \/ setGraph
  \/ \E i \in 1..Len(saves) : SaveStep(i)

SpecDb == InitDb /\ [][NextDb]_vars

----------------------------------------------------------------------------
(* The ImageNode component *)

\* The keys of roleConfig
RoleConfigKeys == {"subject", "scene", "style", "reference"}

RoleBadge(role) ==
  IF role = "subject" THEN "Subject"
  ELSE IF role = "scene" THEN "Scene"
  ELSE IF role = "style" THEN "Style"
  ELSE "Reference"

\* What ImageNode renders for the node data `data`: the label of its role
\* badge, or the TypeError of reading `icon` of undefined when roleConfig has
\* no entry for the role
ImageNodeView(data) ==
  LET role == IF data.role # "" THEN data.role ELSE "reference"
  IN IF role \in RoleConfigKeys
     THEN [failure |-> "", badge |-> RoleBadge(role)]
     ELSE [failure |-> "TypeError", badge |-> ""]

----------------------------------------------------------------------------
(* Properties of the routes *)

Handled(route) == req.route = route /\ out.done

IsTransient(url) == StartsWith(url, BlobScheme)

Count(x, list) == Cardinality({k \in 1..Len(list) : list[k] = x})

Range(list) == {list[k] : k \in 1..Len(list)}

Sections == {"subject", "scene", "style", "reference"}

Attached(section) ==
  Cardinality({k \in 1..Len(out.parts) :
                 out.parts[k].kind = "inlineData" /\ out.parts[k].section = section})

C3_EmptyResultFallsBack ==
  (out.done /\ req.route \in {"gemini", "ideogram"} /\ out.upstream = "empty") =>
     /\ out.status = 200 /\ out.error = ""
     /\ Len(out.images) >= 1
     /\ \A k \in 1..Len(out.images) : out.images[k].prompt = req.body.prompt

\* C4: a transient failure of the credentialed image provider (the fetch
\* rejects, the status is not 2xx) is recovered by the keyless provider, which
\* cannot fail: the route reports no error and returns an image.
C4_TransientFailureRecovered ==
  (out.done /\ req.route \in {"gemini", "ideogram"}
     /\ out.upstream \in {"throw", "error"}) =>
     /\ out.error = ""
     /\ Len(out.images) >= 1

C6_NoTransientImageInContext ==
  Handled("generate") =>
     /\ \A k \in 1..Len(out.allImages) : ~IsTransient(out.allImages[k].url)
     /\ \A k \in 1..Len(out.fetched) : ~IsTransient(out.fetched[k])
     /\ \A k \in 1..Len(out.parts) : ~IsTransient(out.parts[k].data)

C6_Witness ==
  /\ Handled("generate") /\ out.analyzed
  /\ \E k \in 1..Len(req.body.nodes) : IsTransient(req.body.nodes[k].src)
  /\ \E k \in 1..Len(req.body.images) : IsTransient(req.body.images[k].url)
  /\ Len(out.fetched) > 0

\* C9 as stated: a generate request with an empty graph and an empty prompt is
\* answered without error by one keyless result whose prompt is the literal
\* fallback text.
C9_EmptyInvocationYieldsFallback ==
  (Handled("generate") /\ ~Truthy(req.body.prompt) /\ Len(req.body.nodes) = 0) =>
     /\ out.status = 200 /\ out.error = ""
     /\ Len(out.images) = 1
     /\ out.images[1].prompt = LitGenerate

\* C9 as amended: a generate request with an empty graph and an empty prompt is
\* rejected with "Missing prompt or canvas content" and no image; the literal
\* fallback text is the prompt of the single result when the prompt is empty,
\* the graph is not empty but has no text descriptor, and no reasoning step runs.
C9_EmptyInvocationRejected ==
  Handled("generate") =>
     /\ (~Truthy(req.body.prompt) /\ Len(req.body.nodes) = 0) =>
          /\ out.status = 400
          /\ out.error = "Missing prompt or canvas content"
          /\ out.images = <<>>
     /\ (/\ ~Truthy(req.body.prompt) /\ Len(req.body.nodes) > 0
         /\ \A k \in 1..Len(req.body.nodes) : ~IsTextDescriptor(req.body.nodes[k])
         /\ ~out.analyzed) =>
          /\ out.status = 200 /\ out.error = ""
          /\ Len(out.images) = 1
          /\ out.images[1].prompt = LitGenerate

C9_Witness ==
  /\ Handled("generate")
  /\ ~Truthy(req.body.prompt) /\ Len(req.body.nodes) = 0
  /\ out.status = 400

RouteKey ==
  IF req.route = "ideogram" THEN env.IDEOGRAM_API_KEY ELSE env.GEMINI_API_KEY

\* C10 as stated: without a configured credential a request with a prompt is
\* served by the keyless provider, and no requested provider and no
\* combination of keys ends a request with a prompt in a configuration error.
C10_NeverConfigurationError ==
  (out.done /\ req.route \in {"generate", "gemini", "ideogram"}
     /\ Truthy(req.body.prompt)) =>
     /\ ~Truthy(RouteKey) =>
          (out.status = 200 /\ out.provider = "pollinations" /\ Len(out.images) = 1)
     /\ out.error # "Invalid provider configuration"

\* C10 as amended: without a configured credential a request with a prompt is
\* served by the keyless provider whatever provider it asks for; a
\* configuration error ends a request only on the Ideogram route, when its key
\* is configured and the requested provider is neither pollinations (the
\* default) nor ideogram.
C10_KeylessWithoutCredential ==
  (out.done /\ req.route \in {"generate", "gemini", "ideogram"}
     /\ Truthy(req.body.prompt)) =>
     /\ ~Truthy(RouteKey) =>
          /\ out.status = 200 /\ out.error = ""
          /\ out.provider = "pollinations"
          /\ out.upstream = "none"
          /\ Len(out.images) = 1
          /\ out.images[1].prompt =
               (IF req.route = "generate" THEN out.finalPrompt ELSE req.body.prompt)
     /\ out.error = "Invalid provider configuration" =>
          /\ req.route = "ideogram"
          /\ Truthy(env.IDEOGRAM_API_KEY)
          /\ req.body.provider \notin {"undefined", "pollinations", "ideogram"}

C10_Witness ==
  /\ Handled("ideogram")
  /\ ~Truthy(env.IDEOGRAM_API_KEY)
  /\ Truthy(req.body.prompt)
  /\ req.body.provider = "ideogram"
  /\ out.provider = "pollinations"

NamedRoles == {"subject", "scene", "style"}

AsReference(x) == [x EXCEPT !.role = "reference"]

\* C11: an image whose role is absent or is none of subject, scene, style,
\* reference is handled as a reference image: the reasoning step puts it in
\* the reference bucket, and the image node renders as the same node with the
\* role reference does, without failure.
C11_UnknownRoleIsReference ==
  Handled("generate") =>
    /\ out.analyzed =>
         \A x \in Range(out.allImages) :
           x.role \notin NamedRoles =>
             Count(x, out.buckets.reference) = Count(x, out.allImages)
    /\ \A k \in 1..Len(req.body.nodes) :
         (req.body.nodes[k].type = "imageNode"
            /\ req.body.nodes[k].role \notin NamedRoles) =>
           /\ ImageNodeView(req.body.nodes[k]).failure = ""
           /\ ImageNodeView(req.body.nodes[k])
                = ImageNodeView(AsReference(req.body.nodes[k]))

\* The label parts of a section of the reasoning request: its text parts after
\* the header
SectionLabels(section) ==
  LET InSection(p) == p.kind = "text" /\ p.section = section
      texts == SelectSeq(out.parts, InSection)
  IN IF Len(texts) = 0 THEN <<>> ELSE Tail(texts)

SectionData(section) ==
  LET InSection(p) == p.kind = "inlineData" /\ p.section = section
      data == SelectSeq(out.parts, InSection)
  IN [k \in 1..Len(data) |-> data[k].data]

\* The label `text` is the label of the image `img`: it quotes its alt, and
\* ends with its note when it has one
Mentions(text, img) ==
  /\ Contains(text, <<"\"">> \o img.alt \o <<"\"">>)
  /\ Truthy(img.note) <=> Contains(text, <<" - ">> \o img.note)

Fetchable(img) == img.url \notin out.down

EarliestTwo(bucket) == [k \in 1..(IF Len(bucket) < 2 THEN Len(bucket) ELSE 2) |-> bucket[k]]

CapKeepsEarliest ==
  out.analyzed =>
    \A section \in Sections :
      LET bucket == out.buckets[section]
          used == SelectSeq(EarliestTwo(bucket), Fetchable)
      IN /\ Len(SectionLabels(section)) = Len(used)
         /\ \A k \in 1..Len(used) :
              /\ Mentions(SectionLabels(section)[k].text, used[k])
              /\ SectionData(section)[k] = used[k].url

\* C12: when the generate route handles a request, the images used for each
\* role are the two earliest of the role's bucket, in order, a later image of
\* the bucket is left out, and the nodes and edges of the request and of the
\* canvas stay as they are.
C12_CapKeepsEarliestAndGraph ==
  [][(req.route = "generate" /\ ~out.done /\ out'.done) =>
       (req' = req /\ nodes' = nodes /\ edges' = edges /\ CapKeepsEarliest')]_vars

C12_Witness ==
  /\ Handled("generate") /\ out.analyzed
  /\ \E section \in Sections :
       /\ Len(out.buckets[section]) > 2
       /\ out.buckets[section][3] \notin Range(EarliestTwo(out.buckets[section]))
       /\ Len(SectionLabels(section)) = 2
       /\ Len(req.body.nodes) >= 2

\* The image URL without the value of its seed parameter
WithoutSeed(url) ==
  LET IsSeed(i) == i > 1 /\ url[i - 1] = "?width=1024&height=1024&seed="
      kept == {i \in 1..Len(url) : ~IsSeed(i)}
      Nth(k) == CHOOSE i \in kept : Cardinality({j \in kept : j < i}) = k - 1
  IN [k \in 1..Cardinality(kept) |-> url[Nth(k)]]

\* C13: handling the same request again, with the same configuration and the
\* same reply of the reasoning provider, gives the same final prompt whatever
\* the seed drawn and whatever the image fetches do; the two answers differ
\* at most in the seed of the image URL.
C13_CompileDeterministic ==
  (Handled("generate") /\ out.status = 200) =>
    \A down \in DownSets, seed \in Seeds :
      LET again == GeneratePOST(req.body, env.GEMINI_API_KEY, out.reply, down, seed)
      IN /\ again.status = out.status
         /\ again.provider = out.provider
         /\ again.finalPrompt = out.finalPrompt
         /\ Len(again.images) = Len(out.images)
         /\ again.images[1].prompt = out.images[1].prompt
         /\ WithoutSeed(again.images[1].url) = WithoutSeed(out.images[1].url)

C13_Witness ==
  /\ Handled("generate") /\ out.analyzed /\ out.upstream = "text"
  /\ out.finalPrompt # req.body.prompt
  /\ \E down \in DownSets, seed \in Seeds :
       LET again == GeneratePOST(req.body, env.GEMINI_API_KEY, out.reply, down, seed)
       IN /\ again.images[1].url # out.images[1].url
          /\ again.fetched = out.fetched /\ again.parts # out.parts

IsInline(p) == p.kind = "inlineData"

IsText(p) == p.kind = "text"

Reached(url) == url \notin out.down

NonEmptySections == {section \in Sections : Len(out.buckets[section]) > 0}

\* C19: an image whose fetch fails is left out of the reasoning request with
\* its label, every other image that was fetched is attached, in the order of
\* the fetches and followed by its label, and the request is still sent.
C19_ImageFailureIsLocal ==
  (Handled("generate") /\ out.analyzed) =>
    LET attached == SelectSeq(out.parts, IsInline)
        reached == SelectSeq(out.fetched, Reached)
    IN /\ out.status = 200 /\ out.upstream # "none"
       /\ out.parts[Len(out.parts)].section = "analysis"
       /\ Len(attached) = Len(reached)
       /\ \A k \in 1..Len(attached) : attached[k].data = reached[k]
       /\ \A k \in 1..Len(out.parts) :
            IsInline(out.parts[k]) =>
              /\ k < Len(out.parts)
              /\ IsText(out.parts[k + 1])
              /\ out.parts[k + 1].section = out.parts[k].section
       /\ Len(SelectSeq(out.parts, IsText))
            = Cardinality(NonEmptySections) + Len(attached) + 1

C19_Witness ==
  /\ Handled("generate") /\ out.analyzed
  /\ Len(out.fetched) = 2
  /\ ~Reached(out.fetched[1]) /\ Reached(out.fetched[2])
  /\ Len(SelectSeq(out.parts, IsInline)) = 1

QuoteChars == {"\"", "'"}

Preambles == {"Here is", "Here's", "The prompt is:"}

RECURSIVE StripLeadingQuotes(_)
StripLeadingQuotes(s) ==
  IF Len(s) > 0 /\ Head(s) \in QuoteChars THEN StripLeadingQuotes(Tail(s)) ELSE s

RECURSIVE StripTrailingQuotes(_)
StripTrailingQuotes(s) ==
  IF Len(s) > 0 /\ s[Len(s)] \in QuoteChars
  THEN StripTrailingQuotes(SubSeq(s, 1, Len(s) - 1)) ELSE s

StripPreamble(s) == IF Len(s) > 0 /\ Head(s) \in Preambles THEN Tail(s) ELSE s

\* The text of a reply without preamble phrase, surrounding quotes and
\* surrounding whitespace
Cleaned(text) ==
  Trim(StripTrailingQuotes(StripLeadingQuotes(Trim(StripPreamble(Trim(text))))))

\* C20: when the provider replies successfully, the prompt returned is the
\* text of the reply without surrounding quotes, preamble phrase and
\* surrounding whitespace if that is not empty; when it is empty the generate
\* route returns the prompt it returns when the provider fails.
C20_SuccessReturnsCleanedText ==
  /\ (Handled("generate") /\ out.analyzed /\ out.reply.kind = "ok") =>
       \A down \in DownSets, seed \in Seeds :
         out.finalPrompt =
           IF Truthy(Cleaned(out.reply.text)) THEN Cleaned(out.reply.text)
           ELSE GeneratePOST(req.body, env.GEMINI_API_KEY,
                             [kind |-> "error", text |-> <<>>], down, seed).finalPrompt
  /\ (Handled("refine") /\ out.status = 200 /\ out.reply.kind = "ok"
        /\ Truthy(Cleaned(out.reply.text))) =>
       out.refined = Cleaned(out.reply.text)

----------------------------------------------------------------------------
(* Properties of the prompt panel *)

Separator == <<",", " ">>

SeparatorAt(s) ==
  {i \in 1..(Len(s) - Len(Separator) + 1) : SubSeq(s, i, i + Len(Separator) - 1) = Separator}

\* The segments of s between the occurrences of ", "
RECURSIVE Split(_)
Split(s) ==
  IF SeparatorAt(s) = {} THEN <<s>>
  ELSE LET i == CHOOSE j \in SeparatorAt(s) : \A k \in SeparatorAt(s) : j <= k
       IN <<SubSeq(s, 1, i - 1)>> \o Split(SubSeq(s, i + Len(Separator), Len(s)))

RECURSIVE TextsInOrder(_)
TextsInOrder(list) ==
  IF Len(list) = 0 THEN <<>>
  ELSE (IF Head(list).type = "textNode" /\ Head(list).text # <<>>
        THEN <<Head(list).text>> ELSE <<>>)
       \o TextsInOrder(Tail(list))

RECURSIVE LabelsInOrder(_)
LabelsInOrder(list) ==
  IF Len(list) = 0 THEN <<>>
  ELSE (IF Head(list).type = "imageNode"
        THEN <<IF Head(list).alt # <<>> THEN Head(list).alt ELSE <<"image reference">>>>
        ELSE <<>>)
       \o LabelsInOrder(Tail(list))

HowMany(list, P(_)) == Cardinality({k \in 1..Len(list) : P(list[k])})

RefineFailures == {"throw", "error", "empty", "unreachable"}

ReasoningFailures == {"throw", "error", "empty"}

\* C2: when the prompt sent to the refine or the reasoning step is not empty
\* and the provider fails (the fetch rejects, the status is not 2xx, the reply
\* has no text), the resulting prompt contains the prompt sent as a substring.
C2_FallbackContainsUserPrompt ==
  /\ (refineCall.phase = "done" /\ refineCall.upstream \in RefineFailures
        /\ Truthy(refineCall.crude)) =>
       Contains(promptPreview, refineCall.crude)
  /\ (refineCall.phase = "answered" /\ refineCall.answer.upstream = "error"
        /\ Truthy(refineCall.body.prompt)) =>
       Contains(refineCall.answer.refined, refineCall.body.prompt)
  /\ (genCall.phase = "answered" /\ genCall.answer.upstream \in ReasoningFailures
        /\ Truthy(genCall.body.prompt)) =>
       /\ Len(genCall.answer.images) = 1
       /\ Contains(genCall.answer.images[1].prompt, genCall.body.prompt)

C2_Witness ==
  /\ refineCall.phase = "done" /\ refineCall.upstream = "error"
  /\ Truthy(refineCall.crude)
  /\ genCall.phase = "answered" /\ genCall.answer.upstream = "throw"

\* C7: the simple prompt of a node list is the texts of its text nodes in the
\* nodes' order, then the labels of its image nodes in the nodes' order,
\* separated by ", ", however the two kinds are interleaved; it is the empty
\* string when there is neither a text nor a label.
C7_SimplePromptOrder ==
  refineCall.phase # "idle" =>
    IF TextsInOrder(nodes) \o LabelsInOrder(nodes) = <<>>
    THEN refineCall.crude = <<>>
    ELSE Split(refineCall.crude) = TextsInOrder(nodes) \o LabelsInOrder(nodes)

C7_Witness ==
  /\ refineCall.phase # "idle"
  /\ Len(nodes) >= 2
  /\ nodes[1].type = "imageNode"
  /\ nodes[2].type = "textNode" /\ nodes[2].text # <<>>

IsEmptyTextNode(n) == n.type = "textNode" /\ n.text = <<>>
IsFilledTextNode(n) == n.type = "textNode" /\ n.text # <<>>
IsUnlabelledImage(n) == n.type = "imageNode" /\ n.alt = <<>>
IsAnyImage(n) == n.type = "imageNode"
IsDefaultLabel(seg) == seg = <<"image reference">>
IsEmptySegment(seg) == seg = <<>>

\* C8: the simple prompt has no empty segment: a text node without text adds
\* no segment and no separator, every image node adds one segment, and an image
\* node without alt adds the segment "image reference".
C8_NoEmptySegment ==
  refineCall.phase # "idle" =>
    IF refineCall.crude = <<>>
    THEN HowMany(nodes, IsFilledTextNode) + HowMany(nodes, IsAnyImage) = 0
    ELSE /\ HowMany(Split(refineCall.crude), IsEmptySegment) = 0
         /\ Len(Split(refineCall.crude)) =
              HowMany(nodes, IsFilledTextNode) + HowMany(nodes, IsAnyImage)
         /\ HowMany(Split(refineCall.crude), IsDefaultLabel) =
              HowMany(nodes, IsUnlabelledImage)

C8_Witness ==
  /\ refineCall.phase # "idle"
  /\ HowMany(nodes, IsEmptyTextNode) > 0
  /\ HowMany(nodes, IsUnlabelledImage) > 0

\* C14: whenever the refine step or the reasoning step fails, in whatever way,
\* the resulting prompt is the prompt that was sent with the fixed suffix of
\* quality terms appended.
C14_FailureYieldsSuffixedFallback ==
  /\ (refineCall.phase = "done" /\ refineCall.upstream \in RefineFailures) =>
       promptPreview = refineCall.crude \o RefineSuffix
  /\ (genCall.phase = "answered" /\ genCall.answer.upstream \in ReasoningFailures) =>
       /\ Len(genCall.answer.images) = 1
       /\ genCall.answer.images[1].prompt = genCall.body.prompt \o RefineSuffix

InFlight(call) == call.phase \in {"sent", "answered", "failed"}

C18_StoredPromptIsCompiledPrompt ==
  (genCall.phase = "done" /\ Len(genCall.images) > 0) =>
    /\ Len(generated) >= Len(genCall.images)
    /\ \A k \in 1..Len(genCall.images) :
         LET item == generated[Len(generated) - Len(genCall.images) + k]
         IN /\ item.url = genCall.images[k].url
            /\ item.prompt = genCall.images[k].prompt

----------------------------------------------------------------------------
(* Properties of the canvas editor *)

\* C16: after any sequence of editor operations (adding a text or an image
\* node, dropping an asset or a preset, connecting two nodes, deleting the
\* selected node, resetting the canvas, the end of an upload) the source and
\* the target of every edge are ids of nodes that are on the canvas; so
\* deleting a node has removed every edge that had it as source or target.
C16_EdgesReferToNodes ==
  \A k \in 1..Len(edges) :
    /\ edges[k].source \in NodeIds(nodes)
    /\ edges[k].target \in NodeIds(nodes)

\* The latest removal deleted the selected node while an edge entered it from
\* another node, which is still on the canvas
C16_Witness ==
  /\ lastEdit.op = "deleteSelected"
  /\ lastEdit.cutIn
  /\ ~lastEdit.cutOut
  /\ Len(nodes) >= 1

----------------------------------------------------------------------------
(* Properties of the useProjects store *)

ProjectWithId(list, id) == list[CHOOSE k \in 1..Len(list) : list[k].id = id]

IdsOfProjects(list) == {list[k].id : k \in 1..Len(list)}

\* The project `id` is the same before and after the step
SameProject(id) ==
  /\ id \in IdsOfProjects(projects')
  /\ ProjectWithId(projects', id) = ProjectWithId(projects, id)

\* The items `new` are `items` in their order, under ids no item of `old` has
AreNewItems(new, items, old) ==
  /\ Len(new) = Len(items)
  /\ \A k \in 1..Len(new) :
       /\ new[k].url = items[k].url
       /\ new[k].prompt = items[k].prompt
       /\ new[k].id \notin ItemIds(old)
       /\ \A j \in 1..Len(new) : new[j].id = new[k].id => j = k

\* The step is an addGenerated or a removeGenerated
TouchesGenerated ==
  \/ \E items \in ItemBatches : addGenerated(items)
  \/ \E id \in ItemIds(ActiveGenerated) : removeGenerated(id)

\* C17: the generated items are append-only except for explicit deletion.
\* addGenerated puts the new items after the items the active project has,
\* and leaves every such item (id, url, prompt, createdAt) and every other
\* project as it was; removeGenerated(id) takes exactly the item with that id
\* out of the active project and changes nothing else; a step of any other
\* store operation leaves the items of every project it keeps as they were.
C17_GeneratedAppendOnly ==
  [][/\ \A items \in ItemBatches :
          addGenerated(items) =>
            /\ \A id \in ProjectIds \ {activeProjectId} : SameProject(id)
            /\ IdsOfProjects(projects') = ProjectIds
            /\ activeProjectId \in ProjectIds =>
                 LET before == ProjectWithId(projects, activeProjectId)
                     after == ProjectWithId(projects', activeProjectId)
                 IN /\ Len(after.generated) = Len(before.generated) + Len(items)
                    /\ SubSeq(after.generated, 1, Len(before.generated))
                         = before.generated
                    /\ AreNewItems(SubSeq(after.generated,
                                          Len(before.generated) + 1,
                                          Len(after.generated)),
                                   items, AllItems(projects))
                    /\ [after EXCEPT !.generated = <<>>]
                         = [before EXCEPT !.generated = <<>>]
     /\ \A id \in ItemIds(ActiveGenerated) :
          removeGenerated(id) =>
            /\ \A other \in ProjectIds \ {activeProjectId} : SameProject(other)
            /\ IdsOfProjects(projects') = ProjectIds
            /\ LET before == ProjectWithId(projects, activeProjectId)
                   after == ProjectWithId(projects', activeProjectId)
               IN /\ after.generated
                       = SelectSeq(before.generated, LAMBDA g : g.id # id)
                  /\ Len(after.generated) = Len(before.generated) - 1
                  /\ [after EXCEPT !.generated = <<>>]
                       = [before EXCEPT !.generated = <<>>]
     /\ ~TouchesGenerated =>
          \A id \in ProjectIds \cap IdsOfProjects(projects') :
            ProjectWithId(projects', id).generated
              = ProjectWithId(projects, id).generated
    ]_vars

\* An item has just been deleted from a project that holds a later item
\* still, next to another project
C17_Witness ==
  /\ lastEdit.op = "removeGenerated"
  /\ Len(projects) = 2
  /\ Len(ActiveGenerated) = 1
  /\ ActiveGenerated[1].id = "g2"

\* C25: removing a project that is not the active one leaves the active
\* project as it was: active() returns the same project after remove(id) as
\* before it whenever id is not the id of the active project.
C25_RemoveKeepsActive ==
  [][\A id \in ProjectIds :
       (remove(id) /\ id # activeProjectId) => activeProjectId' = activeProjectId
    ]_vars

----------------------------------------------------------------------------
(* Further properties of the prompt panel *)

\* C26: the prompt sent to generation is never a status message of the
\* panel: no Generate carries the text that Refine shows on an empty canvas,
\* and on an empty canvas with nothing typed a Generate sends no request,
\* whether or not Refine was pressed before it.
C26_PromptNeverStatusMessage ==
  genCall.phase # "idle" => genCall.prompt # MsgAddNodes

\* C27: the "Generating..." hint is shown only while a generation is in
\* flight: once a Generate has completed, with images or with a failure,
\* genHint is false again.
C27_HintOnlyWhileGenerating == genCall.phase = "done" => ~genHint

\* C30: the in-flight flags are always released.  A Refine or a Generate
\* that has ended, with an answer, with a failure or by the early exit of
\* Refine on an empty canvas, has set its flag back to false, so that a
\* control is disabled only while its operation is under way.
C30_FlagsReleased ==
  /\ refineCall.phase \in {"idle", "done"} => ~isRefining /\ ~RefineDisabled
  /\ genCall.phase \in {"idle", "done"} => ~isGenerating /\ ~GenerateDisabled

\* Refine has left by its early exit and a Generate has ended in the catch
\* block, both flags down
C30_Witness ==
  /\ refineCall.phase = "done"
  /\ refineCall.upstream = "none"
  /\ genCall.phase = "done"
  /\ genCall.upstream = "unreachable"
  /\ ~isRefining
  /\ ~isGenerating

\* The urls of the images the route attaches under the role `role`
AttachedUrls(answer, role) ==
  {Slice(answer.buckets[role], PerRoleCap)[k].url :
     k \in 1..Len(Slice(answer.buckets[role], PerRoleCap))}

\* C28: for a Generate of the canvas each persisted image node is used at most
\* once in the reasoning request: whatever the reasoning provider and the
\* image hosts do, no image url is fetched and encoded twice and no image is
\* attached under two role sections.
C28_ImageUsedOnce ==
  genCall.phase = "sent" =>
    \A gem \in GeminiReplies, down \in DownSets :
      LET answer == GeneratePOST(genCall.body, env.GEMINI_API_KEY, gem, down,
                                 CHOOSE seed \in Seeds : TRUE)
      IN /\ IsInjective(answer.fetched)
         /\ \A r1, r2 \in DOMAIN answer.buckets :
              r1 # r2 => AttachedUrls(answer, r1) \cap AttachedUrls(answer, r2) = {}

\* C22: a generated image is appended to the history of the project whose
\* graph was compiled for it.  When a Generate ends with images, the project
\* that was active when it was triggered, if it is still there, gets the
\* items, and the items of every other project stay as they were, whatever
\* tabs were clicked, added or removed in between.
C22_ItemGoesToTriggeringProject ==
  [][(handleGenerateDone /\ lastStatus' = "Generated via Gemini!") =>
       /\ \A id \in ProjectIds \ {genCall.project} :
            ProjectWithId(projects', id).generated
              = ProjectWithId(projects, id).generated
       /\ genCall.project \in ProjectIds =>
            Len(ProjectWithId(projects', genCall.project).generated)
              = Len(ProjectWithId(projects, genCall.project).generated)
                  + Len(genCall.answer.images)
    ]_vars

----------------------------------------------------------------------------
(* Further properties of the canvas editor *)

\* C24: an upload that ends, with a url or with an error, after its image
\* node was deleted or the canvas was reset does not make the node again and
\* changes no other node and no edge: the end of the upload of `id` changes
\* the node with that id, if it is still on the canvas, and nothing else.
C24_LateUploadChangesNothingElse ==
  [][\A id \in uploads, ok \in BOOLEAN :
       UploadSettled(id, ok) =>
         /\ edges' = edges
         /\ Len(nodes') = Len(nodes)
         /\ \A k \in 1..Len(nodes) :
              /\ nodes'[k].id = nodes[k].id
              /\ nodes[k].id # id => nodes'[k] = nodes[k]
    ]_vars

\* The node deleted last had its upload under way; that upload has ended
\* since, and a node made by another operation is on the canvas
C24_Witness ==
  /\ lastEdit.op = "deleteSelected"
  /\ lastEdit.uploading
  /\ uploads = {}
  /\ Len(nodes) >= 1

----------------------------------------------------------------------------
(* Properties of the effects of GraphInner *)

\* C23: a save scheduled while a project was shown on the canvas writes the
\* stored nodes and edges of that project only: whenever the stored graph of
\* a project changes, the save that fires was scheduled for this project.
C23_SaveWritesOwnProject ==
  [][\A k \in 1..Len(projects) :
       (/\ k <= Len(projects')
        /\ projects'[k].id = projects[k].id
        /\ \/ projects'[k].nodes # projects[k].nodes
           \/ projects'[k].edges # projects[k].edges)
       => saveTimer.pending /\ saveTimer.projectId = projects[k].id
    ]_vars

\* C21: an image node made from a file is idle, uploading or failed.  Its
\* flags uploading and uploadError are never both true; while it is uploading
\* its url is transient and its upload is under way, so that it leaves the
\* state once, when the upload ends, and is not uploading again afterwards;
\* when idle its url is persisted and when failed its url is still transient.
C21_UploadStates ==
  \A k \in 1..Len(nodes) :
    IsImageNode(nodes[k]) =>
      /\ ~(nodes[k].uploading /\ nodes[k].uploadError)
      /\ nodes[k].uploading => IsTransient(nodes[k].src) /\ nodes[k].id \in uploads
      /\ nodes[k].uploadError => IsTransient(nodes[k].src)
      /\ ~nodes[k].uploading /\ ~nodes[k].uploadError => ~IsTransient(nodes[k].src)


----------------------------------------------------------------------------
(* Properties of setGraph on the database *)

\* The stored graph of project p: the nodes and the edges of its rows
StoredNodes(p) == {r.node : r \in {t \in graph_nodes : t.project_id = p}}

StoredEdges(p) == {r.edge : r \in {t \in graph_edges : t.project_id = p}}

\* C29: when every setGraph call has completed, the stored nodes and edges of a
\* project are those of the local store, the graph of the latest setGraph call.
C29_StoredGraphConverges ==
  saves = <<>> =>
    \A k \in 1..Len(projects) :
      /\ StoredNodes(projects[k].id) = {projects[k].nodes[j] : j \in 1..Len(projects[k].nodes)}
      /\ StoredEdges(projects[k].id) = {projects[k].edges[j] : j \in 1..Len(projects[k].edges)}

====
